---- MODULE Spec2Model ----
(***************************************************************************)
(* The natural-language-to-SQL agent of client.py: SimpleMCPAgent and the  *)
(* interactive loop of main().  Strings are sequences of one-character     *)
(* strings; the raw model output is a sequence of lexical tokens.          *)
(***************************************************************************)
EXTENDS Integers, Sequences, FiniteSets, TLC

\* ------------------------------------------------------------------ bounds
MaxLen == 4
MaxTurns == 2
MaxRows == 2
MaxCalls == 2

\* ----------------------------------------------------------------- strings
Lowers == <<"a","b","c","d","e","f","g","h","i","j","k","l","m",
            "n","o","p","q","r","s","t","u","v","w","x","y","z">>
Uppers == <<"A","B","C","D","E","F","G","H","I","J","K","L","M",
            "N","O","P","Q","R","S","T","U","V","W","X","Y","Z">>

UpperChar(c) ==
  IF \E i \in 1..26 : Lowers[i] = c
    THEN Uppers[CHOOSE i \in 1..26 : Lowers[i] = c] ELSE c

LowerChar(c) ==
  IF \E i \in 1..26 : Uppers[i] = c
    THEN Lowers[CHOOSE i \in 1..26 : Uppers[i] = c] ELSE c

Upper(s) == [i \in 1..Len(s) |-> UpperChar(s[i])]
Lower(s) == [i \in 1..Len(s) |-> LowerChar(s[i])]

SetMin(S) == CHOOSE x \in S : \A y \in S : x <= y
SetMax(S) == CHOOSE x \in S : \A y \in S : x >= y

\* str.strip(): drop leading and trailing whitespace
Strip(s) ==
  LET keep == {i \in 1..Len(s) : s[i] # " "}
  IN IF keep = {} THEN <<>> ELSE SubSeq(s, SetMin(keep), SetMax(keep))

StartsWith(s, p) == Len(s) >= Len(p) /\ SubSeq(s, 1, Len(p)) = p

\* str.find / str.rfind of a single token: 0-based index, -1 when absent
Find(s, c) ==
  LET hit == {i \in 1..Len(s) : s[i] = c}
  IN IF hit = {} THEN -1 ELSE SetMin(hit) - 1

RFindFirst(s, c) == Find(s, c)
RFind(s, c) ==
  LET hit == {i \in 1..Len(s) : s[i] = c}
  IN IF hit = {} THEN -1 ELSE SetMax(hit) - 1

\* s[a:b] with Python's treatment of negative and out-of-range bounds
PyBound(n, i) == IF i < 0 THEN (IF n + i < 0 THEN 0 ELSE n + i)
                 ELSE (IF i > n THEN n ELSE i)

PySlice(s, a, b) ==
  LET lo == PyBound(Len(s), a)
      hi == PyBound(Len(s), b)
  IN IF lo >= hi THEN <<>> ELSE SubSeq(s, lo + 1, hi)

RECURSIVE Join(_, _)
Join(parts, sep) ==
  IF parts = <<>> THEN <<>>
  ELSE IF Len(parts) = 1 THEN parts[1]
  ELSE parts[1] \o sep \o Join(Tail(parts), sep)

S_select    == <<"S","E","L","E","C","T">>
S_help      == <<"H","E","L","P">>
S_id        == <<"i","d">>
S_hire_date == <<"h","i","r","e","_","d","a","t","e">>
S_name      == <<"n","a","m","e">>
S_salary    == <<"s","a","l","a","r","y">>
S_department == <<"d","e","p","a","r","t","m","e","n","t">>
S_count_sql == <<"S","E","L","E","C","T"," ","C","O","U","N","T","(","*",")">>
S_insert    == <<"I","N","S","E","R","T"," ","I","N","T","O"," ",
                 "e","m","p","l","o","y","e","e","s"," ","(">>
S_values    == <<")"," ","V","A","L","U","E","S"," ","(">>
S_comma     == <<",", " ">>
S_ph        == <<"%","s">>

\* -------------------------------------------------------------- JSON values
Absent    == [t |-> "absent"]
Null      == [t |-> "null"]
Str(s)    == [t |-> "str", s |-> s]
Bool(b)   == [t |-> "bool", b |-> b]

\* Python truthiness of a decoded value (None for an absent key)
Truthy(v) == \/ v.t = "bool" /\ v.b
             \/ v.t = "str" /\ v.s # <<>>

EmptyObj == [action |-> Absent, sql |-> Absent, needs_data |-> Absent,
             explanation |-> Absent]

\* Lexical tokens of a raw model output: the two braces, whitespace, a
\* word of prose that is not JSON text ("w"), and "F", the comma-separated
\* key/value members of one object (their content is held in `members').
Tokens == {"{", "}", "F", "w", " "}

JsonLoadsLenient(span, mem) ==
  LET sig == SelectSeq(span, LAMBDA t : t # " ")
  IN IF sig = <<"{", "F", "}">> THEN [ok |-> TRUE, obj |-> mem]
     ELSE IF sig \in {<<"{", "}">>, <<>>} THEN [ok |-> TRUE, obj |-> EmptyObj]
     ELSE [ok |-> FALSE, obj |-> EmptyObj]
\* json.loads of a token span: whitespace between tokens is insignificant;
\* the only well-formed texts over these tokens are {} and {members}.
JsonLoads(span, mem) ==
  LET sig == SelectSeq(span, LAMBDA t : t # " ")
  IN IF sig = <<"{", "F", "}">> THEN [ok |-> TRUE, obj |-> mem]
     ELSE IF sig = <<"{", "}">> THEN [ok |-> TRUE, obj |-> EmptyObj]
     ELSE [ok |-> FALSE, obj |-> EmptyObj]

\* process_user_request, the extraction of the JSON span
JsonSpan(raw) == PySlice(raw, Find(raw, "{"), RFind(raw, "}") + 1)

\* ------------------------------------------------------- environment inputs
\* Column lists DESCRIBE can return (the empty list: a table without columns)
Schemas == { <<>>,
             <<S_id, S_name, S_department, S_salary>>,
             <<S_id, S_name, S_hire_date>>,
             <<S_id, S_hire_date>> }

ActionVals == { Absent, Null, Str(<<"h","e","l","p">>), Str(S_select),
                Str(<<"U","p","d","a","t","e">>), Str(<<"D","R","O","P">>) }

SqlVals == { Absent, Null, Str(<<>>), Str(<<" ">>),
             Str(<<" ","s","e","l","e","c","t"," ">>),
             Str(<<"S","E","L","E","C">>),
             Str(<<"U","P","D","A","T","E">>) }

NeedsVals == { Absent, Bool(TRUE), Bool(FALSE) }

ExplVals == { Absent, Str(<<"e">>) }

Decisions == [action : ActionVals, sql : SqlVals, needs_data : NeedsVals,
              explanation : ExplVals]

RawTexts == UNION { [1..n -> Tokens] : n \in 0..MaxLen }

\* What requests.post can do: raise (transport error, timeout) or return a
\* response with a status and a body.  Bodies: not JSON, JSON that is not
\* an object, an object without `response', an object whose `response' is
\* null, an object whose `response' is a text.
HttpFailures == { [kind |-> k, status |-> 0, body |-> "none",
                   text |-> <<>>, mem |-> EmptyObj] :
                  k \in {"transport_error", "timeout"} }

\* The members behind "F" are read only in the texts in which the object is
\* decoded.  The bare object in a 200 reply carries every decision; an
\* object wrapped in other tokens, or in a reply of another status, carries
\* the sample decisions.
Decodes(tx) == LET r == JsonLoads(JsonSpan(Strip(tx)), EmptyObj)
               IN r.ok /\ \E i \in 1..Len(tx) : tx[i] = "F"

SampleDecisions ==
  { [action |-> Str(S_help), sql |-> Null, needs_data |-> Bool(FALSE),
     explanation |-> Str(<<"e">>)],
    [action |-> Str(S_select), sql |-> Str(S_select),
     needs_data |-> Bool(FALSE), explanation |-> Str(<<"e">>)],
    [action |-> Absent, sql |-> Str(<<"U","P","D","A","T","E">>),
     needs_data |-> Absent, explanation |-> Absent] }

MembersOf(tx, st) ==
  IF ~Decodes(tx) THEN {EmptyObj}
  ELSE IF tx = <<"{", "F", "}">> /\ st = 200 THEN Decisions
  ELSE SampleDecisions

HttpResponses ==
  { [kind |-> "response", status |-> st, body |-> b,
     text |-> <<>>, mem |-> EmptyObj] :
    st \in {200, 500}, b \in {"notjson", "nonobject", "noresponse", "nullresponse"} }
  \cup
  UNION { { [kind |-> "response", status |-> st, body |-> "text",
             text |-> tx, mem |-> m] : m \in MembersOf(tx, st) } :
          tx \in RawTexts, st \in {200, 500} }

HttpOutcomes == HttpFailures \cup HttpResponses

\* Lines the user can type
InputLines == { <<>>, <<" ">>, <<"q">>, <<" ","Q"," ">>,
                <<"E","x","i","t">>, <<"q","u","i","t">>,
                <<" ","q","q">> }

\* Values the user can type at a field prompt
FieldInputs == { <<>>, <<" ">>, <<"a">>, <<" ","b"," ">> }

ExitWords == { <<"e","x","i","t">>, <<"q","u","i","t">>, <<"q">> }

\* ------------------------------------------------------------------- state
VARIABLES
  pc,            \* position of main() / the running method
  schema,        \* self.schema['columns']
  conns,         \* connections currently open
  eof,           \* standard input is exhausted
  turn,          \* turns started so far
  http,          \* outcome of the last requests.post: kind and status
  llm_response,  \* process_user_request: llm_response
  members,       \* the members the token "F" of llm_response stands for
  result,        \* process_user_request: result
  action,        \* process_user_request: action
  sql,           \* execute_sql: sql
  params,        \* execute_sql: params
  caller,        \* who called execute_sql
  cursor,        \* the cursor's pending result
  failed,        \* execute_sql: the step at which the driver raised
  db_result,     \* value returned by execute_sql
  fields,        \* _collect_data_for_insert: insertable
  data,          \* _collect_data_for_insert: data, in insertion order
  collectEnd,    \* how the last data collection ended
  prompted,      \* the fields input() was called for in this collection
  response,      \* the answer of the turn
  llmCalls,      \* calls of ask_llm in this turn
  execCalls,     \* calls of execute_sql in this turn
  collectCalls,  \* calls of _collect_data_for_insert in this turn
  connects,      \* calls of mysql.connector.connect in the current database call
  commits,       \* conn.commit() calls that succeeded in this turn
  printed,       \* answers printed in this turn
  escaped,       \* an exception left execute_sql
  selfDb,        \* test_connections: the type of the row-count result
  test,          \* test_connections: test
  warned,        \* test_connections printed the model warning
  user_input,    \* main: user_input
  event,         \* what the last input() of main did
  unexpected     \* parity of the "Unexpected Error" lines main has printed

VARIABLES
  srv_pc,        \* server.py: position of the tool / of the fetch function
  dept,          \* fetch_employees_by_department: dept
  conn,          \* fetch_employees_by_department: conn (unbound, open, ...)
  fetched,       \* fetch_employees_by_department: rows
  srv_ret,       \* how fetch_employees_by_department ends: value or exception
  srv_reply,     \* what the server.py tool call gave its caller
  srv_open,      \* connections of server.py currently open
  srv_calls,     \* tool calls made to server.py
  m_pc,          \* main.py: position of the tool / of execute_query
  tool,          \* main.py: the tool being called
  query,         \* execute_query: query
  m_result,      \* execute_query: the value returned
  m_reply,       \* what the main.py tool call gave its caller
  m_open,        \* connections of main.py currently open
  m_calls        \* tool calls made to main.py

vars == << pc, schema, conns, eof, turn, http, llm_response, members, result,
           action, sql, params, caller, cursor, failed, db_result, fields,
           data, collectEnd, prompted, response, llmCalls, execCalls, collectCalls,
           connects, commits, printed, escaped, selfDb, test, warned,
           user_input, event, unexpected,
           srv_pc, dept, conn, fetched, srv_ret, srv_reply, srv_open,
           srv_calls, m_pc, tool, query, m_result, m_reply, m_open,
           m_calls >>

NoHttp     == [kind |-> "none", status |-> 0]
NoCursor   == [rows |-> <<>>, rowcount |-> 0]
NoResult   == [type |-> "none", data |-> <<>>, rows_affected |-> 0,
               message |-> "none"]
NoResponse == [kind |-> "none", n |-> 0, verb |-> <<>>, text |-> <<>>,
               lines |-> <<>>]

Msg(k) == [kind |-> k, n |-> 0, verb |-> <<>>, text |-> <<>>, lines |-> <<>>]

NoReturn      == [t |-> "none", rows |-> <<>>, text |-> "none"]
NoReply       == [kind |-> "none", text |-> "none", lines |-> <<>>, n |-> 0]
NoQueryResult == [t |-> "none", data |-> <<>>, affected_rows |-> 0,
                  error |-> "none"]

Init ==
  /\ pc = "probe_connect"
  /\ schema = <<>>
  /\ conns = 0
  /\ eof = FALSE
  /\ turn = 0
  /\ http = NoHttp
  /\ llm_response = <<>>
  /\ members = EmptyObj
  /\ result = EmptyObj
  /\ action = <<>>
  /\ sql = <<>>
  /\ params = <<>>
  /\ caller = "none"
  /\ cursor = NoCursor
  /\ failed = "none"
  /\ db_result = NoResult
  /\ fields = <<>>
  /\ data = <<>>
  /\ collectEnd = "none"
  /\ prompted = <<>>
  /\ response = NoResponse
  /\ llmCalls = 0
  /\ execCalls = 0
  /\ collectCalls = 0
  /\ connects = 0
  /\ commits = 0
  /\ printed = 0
  /\ escaped = FALSE
  /\ selfDb = "none"
  /\ test = <<>>
  /\ warned = FALSE
  /\ user_input = <<>>
  /\ event = "none"
  /\ unexpected = 0
  /\ srv_pc = "idle"
  /\ dept = "none"
  /\ conn = "unbound"
  /\ fetched = <<>>
  /\ srv_ret = NoReturn
  /\ srv_reply = NoReply
  /\ srv_open = 0
  /\ srv_calls = 0
  /\ m_pc = "idle"
  /\ tool = "none"
  /\ query = <<>>
  /\ m_result = NoQueryResult
  /\ m_reply = NoReply
  /\ m_open = 0
  /\ m_calls = 0

turnCounters == << llmCalls, execCalls, collectCalls, commits, printed >>
llmVars      == << http, llm_response, members >>
dispVars     == << result, action >>
execVars     == << sql, params, caller, cursor, failed, db_result, connects,
                   escaped >>
collVars     == << fields, data, collectEnd, prompted >>
envVars      == << schema, eof, turn >>
startVars    == << selfDb, test, warned >>
loopVars     == << user_input, event, unexpected >>
serverVars   == << srv_pc, dept, conn, fetched, srv_ret, srv_reply, srv_open,
                   srv_calls >>
mainVars     == << m_pc, tool, query, m_result, m_reply, m_open, m_calls >>
toolVars     == << serverVars, mainVars >>
auxVars      == << startVars, loopVars, toolVars >>
clientVars   == << pc, envVars, conns, llmVars, dispVars, execVars, collVars,
                   response, turnCounters, startVars, loopVars >>

\* ---------------------------------------------------------- database calls
\* PEP 249 / mysql.connector: every error the driver raises is a subclass
\* of mysql.connector.Error
DriverErrors == {"InterfaceError", "ProgrammingError"}

CatchesNarrow(e) == e = "ProgrammingError"
\* execute_sql: except mysql.connector.Error
Catches(e) == e \in DriverErrors

WithExitLeak(c, raised) == IF raised THEN c ELSE c - 1
\* leaving `with mysql.connector.connect(...) as conn': the connection is
\* closed whether the block returned or raised
WithExit(c, raised) == c - 1

IsSelectNoStrip(s) == StartsWith(Upper(s), S_select)
\* execute_sql: sql.strip().upper().startswith('SELECT')
IsSelect(s) == StartsWith(Upper(Strip(s)), S_select)

FetchOne(cur) == IF cur.rows = <<>> THEN <<>> ELSE <<cur.rows[1]>>
\* cursor.fetchall()
FetchAll(cur) == cur.rows

ErrorResult(e)  == [type |-> "error", data |-> <<>>, rows_affected |-> 0,
                    message |-> e]
SelectResult(d) == [type |-> "select", data |-> d, rows_affected |-> 0,
                    message |-> "none"]
ModifyResult(n) == [type |-> "modify", data |-> <<>>, rows_affected |-> n,
                    message |-> "none"]

ReturnPcRetry(who) == CASE who = "selftest" -> "selftest_check"
                        [] who = "dispatch" -> "dispatch"
                        [] OTHER            -> "collect_result"
\* Where control goes when execute_sql returns to its caller
ReturnPc(who) == CASE who = "selftest" -> "selftest_check"
                   [] who = "dispatch" -> "format"
                   [] OTHER            -> "collect_result"

\* Where control goes when an exception leaves execute_sql: the handler of
\* test_connections (return False) or of process_user_request
HandlerPc(who) == IF who = "selftest" THEN "startup_failed" ELSE "print"

\* The driver raises e inside execute_sql at `step'; the connection, once
\* opened, is released by the `with' block
Raise(e, step) ==
  /\ failed' = step
  /\ conns' = IF step # "connect" THEN WithExit(conns, TRUE) ELSE conns
  /\ IF Catches(e)
       THEN /\ db_result' = ErrorResult(e)
            /\ pc' = "exec_return"
            /\ UNCHANGED << escaped, response >>
       ELSE /\ escaped' = TRUE
            /\ pc' = HandlerPc(caller)
            /\ response' = IF caller = "selftest" THEN response
                           ELSE Msg("error")
            /\ UNCHANGED db_result

\* Entering execute_sql(s, p) on behalf of `who'
CallExecuteSql(s, p, who) ==
  /\ sql' = s
  /\ params' = p
  /\ caller' = who
  /\ cursor' = NoCursor
  /\ failed' = "none"
  /\ db_result' = NoResult
  /\ connects' = 0
  /\ escaped' = FALSE
  /\ execCalls' = execCalls + 1
  /\ pc' = "exec_connect"

ExecConnect ==
  /\ pc = "exec_connect"
  /\ connects' = connects + 1
  /\ \/ /\ conns' = conns + 1
        /\ pc' = "exec_execute"
        /\ UNCHANGED << failed, db_result, escaped, response >>
     \/ \E e \in DriverErrors : Raise(e, "connect")
  /\ UNCHANGED << envVars, llmVars, dispVars, collVars, sql, params, caller,
                  cursor, llmCalls, execCalls, collectCalls, commits, printed >>
  /\ UNCHANGED auxVars

ExecExecute ==
  /\ pc = "exec_execute"
  /\ \/ /\ \E n \in 0..MaxRows :
             cursor' = [rows |-> [i \in 1..n |-> i], rowcount |-> n]
        /\ pc' = IF IsSelect(sql) THEN "exec_fetch" ELSE "exec_commit"
        /\ UNCHANGED << conns, failed, db_result, escaped, response >>
     \/ /\ \E e \in DriverErrors : Raise(e, "execute")
        /\ UNCHANGED cursor
  /\ UNCHANGED << envVars, llmVars, dispVars, collVars, sql, params, caller,
                  connects, turnCounters >>
  /\ UNCHANGED auxVars

ExecFetch ==
  /\ pc = "exec_fetch"
  /\ \/ /\ db_result' = SelectResult(FetchAll(cursor))
        /\ conns' = WithExit(conns, FALSE)
        /\ pc' = "exec_return"
        /\ UNCHANGED << failed, escaped, response >>
     \/ \E e \in DriverErrors : Raise(e, "fetch")
  /\ UNCHANGED << envVars, llmVars, dispVars, collVars, sql, params, caller,
                  cursor, connects, turnCounters >>
  /\ UNCHANGED auxVars

ExecCommit ==
  /\ pc = "exec_commit"
  /\ \/ /\ commits' = commits + 1
        /\ db_result' = ModifyResult(cursor.rowcount)
        /\ conns' = WithExit(conns, FALSE)
        /\ pc' = "exec_return"
        /\ UNCHANGED << failed, escaped, response >>
     \/ /\ \E e \in DriverErrors : Raise(e, "commit")
        /\ UNCHANGED commits
  /\ UNCHANGED << envVars, llmVars, dispVars, collVars, sql, params, caller,
                  cursor, connects, llmCalls, execCalls, collectCalls, printed >>
  /\ UNCHANGED auxVars

ExecReturn ==
  /\ pc = "exec_return"
  /\ pc' = ReturnPc(caller)
  /\ UNCHANGED << envVars, conns, llmVars, dispVars, execVars, collVars,
                  response, turnCounters >>
  /\ UNCHANGED auxVars

\* ----------------------------------------------------------------- startup
\* _get_table_info: opening the connection; a failure becomes RuntimeError,
\* which leaves the constructor and main()
ProbeConnect ==
  /\ pc = "probe_connect"
  /\ connects' = connects + 1
  /\ \/ /\ conns' = conns + 1
        /\ pc' = "probe_describe"
     \/ /\ pc' = "fatal"
        /\ UNCHANGED conns
  /\ UNCHANGED << envVars, llmVars, dispVars, collVars, sql, params, caller,
                  cursor, failed, db_result, escaped, response, turnCounters >>
  /\ UNCHANGED auxVars

\* _get_table_info: DESCRIBE employees, fetchall, the zero-column check
ProbeDescribe ==
  /\ pc = "probe_describe"
  /\ \/ \E cols \in Schemas :
          IF cols = <<>>
            THEN /\ conns' = WithExit(conns, TRUE)
                 /\ pc' = "fatal"
                 /\ UNCHANGED schema
            ELSE /\ schema' = cols
                 /\ conns' = WithExit(conns, FALSE)
                 /\ pc' = "selftest_db"
     \/ /\ conns' = WithExit(conns, TRUE)
        /\ pc' = "fatal"
        /\ UNCHANGED schema
  /\ UNCHANGED << eof, turn, llmVars, dispVars, execVars, collVars, response,
                  turnCounters >>
  /\ UNCHANGED auxVars

\* test_connections: the row-count query
SelfTestDb ==
  /\ pc = "selftest_db"
  /\ CallExecuteSql(S_count_sql, <<>>, "selftest")
  /\ UNCHANGED << envVars, conns, llmVars, dispVars, collVars, response,
                  llmCalls, collectCalls, commits, printed >>
  /\ UNCHANGED auxVars

SelfTestPassesAlways(r) == TRUE
\* test_connections: result['type'] == 'select' and result['data'][0]
\* (an empty row list raises IndexError, which returns False as well)
SelfTestPasses(r) == r.type = "select" /\ r.data # <<>>

SelfTestCheck ==
  /\ pc = "selftest_check"
  /\ selfDb' = db_result.type
  /\ pc' = IF SelfTestPasses(db_result) THEN "selftest_llm"
           ELSE "startup_failed"
  /\ UNCHANGED << envVars, conns, llmVars, dispVars, execVars, collVars,
                  response, turnCounters, test, warned, loopVars >>
  /\ UNCHANGED toolVars

\* ------------------------------------------------------------------ ask_llm
\* response.json().get('response', '').strip(), any exception giving ''
ask_llm(h) ==
  IF h.kind # "response" THEN <<>>
  ELSE IF h.body # "text" THEN <<>>
  ELSE Strip(h.text)

\* Replies to "Reply with only OK", as character strings
S_ok == <<"O","K">>

SelfTestTexts == { <<>>, <<" ","o","k","."," ">>, <<"O","K">>, <<"n","o">>,
                   <<"K","O">> }

SelfTestOutcomes ==
  HttpFailures
  \cup { h \in HttpResponses : h.body # "text" }
  \cup { [kind |-> "response", status |-> st, body |-> "text",
          text |-> tx, mem |-> EmptyObj] :
         st \in {200, 500}, tx \in SelfTestTexts }

\* `sub in s'
Contains(s, sub) ==
  \E i \in 1..(Len(s) - Len(sub) + 1) : SubSeq(s, i, i + Len(sub) - 1) = sub

\* test_connections: test = self.ask_llm("Reply with only OK")
SelfTestLlm ==
  /\ pc = "selftest_llm"
  /\ \E h \in SelfTestOutcomes :
       /\ http' = [kind |-> h.kind, status |-> h.status]
       /\ test' = ask_llm(h)
  /\ llmCalls' = llmCalls + 1
  /\ pc' = "selftest_report"
  /\ UNCHANGED << envVars, conns, llm_response, members, dispVars, execVars,
                  collVars, response, execCalls, collectCalls, commits,
                  printed, selfDb, warned, loopVars >>
  /\ UNCHANGED toolVars

\* test_connections: "OK" in test.upper()
IsOk(t) == Contains(Upper(t), S_ok)

\* test_connections: the "LLM OK" line or the warning, then return True
SelfTestReport ==
  /\ pc = "selftest_report"
  /\ warned' = ~IsOk(test)
  /\ test' = <<>>
  /\ pc' = "prompt"
  /\ UNCHANGED << envVars, conns, llmVars, dispVars, execVars, collVars,
                  response, turnCounters, selfDb, loopVars >>
  /\ UNCHANGED toolVars

\* ------------------------------------------------------------ the main loop
OnInterruptExit(where) == "done"
\* Where KeyboardInterrupt raised by input() is handled: at the prompt of
\* main() the loop breaks; inside _collect_data_for_insert the collector
\* returns its message and the turn goes on to print it
OnInterrupt(where) == IF where = "collect" THEN "print" ELSE "done"

\* main(): input(), the exit words, the empty line, the two handlers
IsExitCaseSensitive(u) == u \in ExitWords
\* main: user_input.lower() in ['exit', 'quit', 'q']
IsExit(u) == Lower(u) \in ExitWords

ReadInput ==
  /\ pc = "prompt"
  /\ \/ /\ ~eof
        /\ \E line \in InputLines :
             /\ user_input' = Strip(line)
             /\ event' = "line"
             /\ IF IsExit(Strip(line))
                  THEN /\ pc' = "done"
                       /\ UNCHANGED << turn, llmVars, dispVars, execVars,
                                       collVars, response, turnCounters >>
                ELSE IF Strip(line) = <<>>
                  THEN UNCHANGED << pc, turn, llmVars, dispVars, execVars,
                                    collVars, response, turnCounters >>
                ELSE \* agent.process_user_request(user_input) begins
                     /\ turn < MaxTurns
                     /\ turn' = turn + 1
                     /\ pc' = "ask"
                     /\ http' = NoHttp
                     /\ llm_response' = <<>>
                     /\ members' = EmptyObj
                     /\ result' = EmptyObj
                     /\ action' = <<>>
                     /\ sql' = <<>>
                     /\ params' = <<>>
                     /\ caller' = "none"
                     /\ cursor' = NoCursor
                     /\ failed' = "none"
                     /\ db_result' = NoResult
                     /\ connects' = 0
                     /\ escaped' = FALSE
                     /\ fields' = <<>>
                     /\ data' = <<>>
                     /\ collectEnd' = "none"
                     /\ prompted' = <<>>
                     /\ response' = NoResponse
                     /\ llmCalls' = 0
                     /\ execCalls' = 0
                     /\ collectCalls' = 0
                     /\ commits' = 0
                     /\ printed' = 0
        /\ UNCHANGED << eof, unexpected >>
     \/ \* KeyboardInterrupt
        /\ pc' = OnInterrupt("prompt")
        /\ event' = "interrupt"
        /\ UNCHANGED << eof, turn, llmVars, dispVars, execVars, collVars,
                        response, turnCounters, user_input, unexpected >>
     \/ \* EOFError, caught by `except Exception', which prints and goes on
        /\ eof' = TRUE
        /\ event' = "eof"
        /\ unexpected' = 1 - unexpected
        /\ UNCHANGED << pc, turn, llmVars, dispVars, execVars, collVars,
                        response, turnCounters, user_input >>
  /\ UNCHANGED << schema, conns, startVars >>
  /\ UNCHANGED toolVars

\* process_user_request: llm_response = self.ask_llm(prompt)
AskLlm ==
  /\ pc = "ask"
  /\ \E h \in HttpOutcomes :
       /\ http' = [kind |-> h.kind, status |-> h.status]
       /\ llm_response' = ask_llm(h)
       /\ members' = h.mem
  /\ llmCalls' = llmCalls + 1
  /\ pc' = "parse"
  /\ UNCHANGED << envVars, conns, dispVars, execVars, collVars, response,
                  execCalls, collectCalls, commits, printed >>
  /\ UNCHANGED auxVars

\* result.get('action', '').upper(): None has no upper()
ActionRaises(obj) == obj.action.t \notin {"absent", "str"}
ActionOf(obj) == IF obj.action.t = "str" THEN Upper(obj.action.s) ELSE <<>>

\* process_user_request: find / rfind / json.loads and the action
Parse ==
  /\ pc = "parse"
  /\ LET r == JsonLoads(JsonSpan(llm_response), members) IN
       IF ~r.ok
         THEN /\ response' = Msg("parse_failed")
              /\ pc' = "print"
              /\ UNCHANGED dispVars
       ELSE IF ActionRaises(r.obj)
         THEN /\ response' = Msg("error")
              /\ pc' = "print"
              /\ result' = r.obj
              /\ UNCHANGED action
       ELSE /\ result' = r.obj
            /\ action' = ActionOf(r.obj)
            /\ pc' = "dispatch"
            /\ UNCHANGED response
  /\ UNCHANGED << envVars, conns, llmVars, execVars, collVars, turnCounters >>
  /\ UNCHANGED auxVars

BranchDataFirst(act, obj) ==
  IF Truthy(obj.needs_data) THEN "collect"
  ELSE IF act = S_help THEN "help"
  ELSE IF ~Truthy(obj.sql) THEN "nosql"
  ELSE "execute"
\* The dispatch rule of process_user_request, first match wins
Branch(act, obj) ==
  IF act = S_help THEN "help"
  ELSE IF Truthy(obj.needs_data) THEN "collect"
  ELSE IF ~Truthy(obj.sql) THEN "nosql"
  ELSE "execute"

\* f"{result.get('explanation')}"
ExplanationText(obj) ==
  IF obj.explanation.t = "str" THEN obj.explanation.s
  ELSE <<"N","o","n","e">>

\* _collect_data_for_insert: the insertable columns
Insertable(cols) ==
  SelectSeq(cols, LAMBDA c : c \notin {S_id, S_hire_date})

Dispatch ==
  /\ pc = "dispatch"
  /\ LET b == Branch(action, result) IN
       CASE b = "help" ->
              /\ response' = [Msg("help") EXCEPT !.text = ExplanationText(result)]
              /\ pc' = "print"
              /\ UNCHANGED << execVars, collVars, execCalls, collectCalls >>
         [] b = "collect" ->
              /\ collectCalls' = collectCalls + 1
              /\ fields' = Insertable(schema)
              /\ data' = <<>>
              /\ collectEnd' = "none"
              /\ prompted' = <<>>
              /\ pc' = "collect"
              /\ UNCHANGED << execVars, response, execCalls >>
         [] b = "nosql" ->
              /\ response' = Msg("nosql")
              /\ pc' = "print"
              /\ UNCHANGED << execVars, collVars, execCalls, collectCalls >>
         [] OTHER ->
              /\ CallExecuteSql(result.sql.s, <<>>, "dispatch")
              /\ UNCHANGED << collVars, response, collectCalls >>
  /\ UNCHANGED << envVars, conns, llmVars, dispVars, llmCalls, commits,
                  printed >>
  /\ UNCHANGED auxVars

FormatSelectResultsFromZero(d) ==
  IF d = <<>> THEN Msg("no_records")
  ELSE [Msg("records") EXCEPT !.n = Len(d),
                              !.lines = [i \in 1..Len(d) |-> <<i - 1, d[i]>>]]
\* _format_select_results: the fixed answer for no rows, else the count
\* header and one line per row, numbered from 1
FormatSelectResults(d) ==
  IF d = <<>> THEN Msg("no_records")
  ELSE [Msg("records") EXCEPT !.n = Len(d),
                              !.lines = [i \in 1..Len(d) |-> <<i, d[i]>>]]

\* process_user_request: the answer for a database result
FormatAnswer(r, act) ==
  CASE r.type = "error" -> [Msg("db_error") EXCEPT !.text = r.message]
    [] r.type = "select" -> FormatSelectResults(r.data)
    [] OTHER ->
         IF r.rows_affected # 0
           THEN [Msg("modified") EXCEPT !.n = r.rows_affected,
                                        !.verb = Lower(act)]
           ELSE Msg("no_rows")

Format ==
  /\ pc = "format"
  /\ response' = FormatAnswer(db_result, action)
  /\ pc' = "print"
  /\ UNCHANGED << envVars, conns, llmVars, dispVars, execVars, collVars,
                  turnCounters >>
  /\ UNCHANGED auxVars

\* ------------------------------------------------- _collect_data_for_insert
InsertSqlInterpolated(keys, values) ==
  S_insert \o Join(keys, S_comma) \o S_values
    \o Join(values, S_comma) \o <<")">>
\* _collect_data_for_insert: columns, placeholders and the statement text
InsertSql(keys, values) ==
  S_insert \o Join(keys, S_comma) \o S_values
    \o Join([i \in 1..Len(values) |-> S_ph], S_comma) \o <<")">>

FieldRejectedNever(value) == FALSE
\* _collect_data_for_insert: `if not value'
FieldRejected(value) == value = <<>>

\* One prompt: a value, an empty value, KeyboardInterrupt or EOFError
CollectPrompt ==
  /\ pc = "collect"
  /\ Len(data) < Len(fields)
  /\ prompted' = Append(prompted, fields[Len(data) + 1])
  /\ \/ /\ ~eof
        /\ \E typed \in FieldInputs :
             LET value == Strip(typed) IN
             IF FieldRejected(value)
               THEN /\ response' = Msg("all_required")
                    /\ collectEnd' = "empty"
                    /\ pc' = "print"
                    /\ UNCHANGED data
               ELSE /\ data' = Append(data, value)
                    /\ UNCHANGED << response, collectEnd, pc >>
        /\ UNCHANGED eof
     \/ /\ response' = Msg("cancelled")
        /\ collectEnd' = "interrupt"
        /\ pc' = OnInterrupt("collect")
        /\ UNCHANGED << data, eof >>
     \/ /\ eof' = TRUE
        /\ response' = Msg("error")
        /\ collectEnd' = "eof"
        /\ pc' = "print"
        /\ UNCHANGED data
  /\ UNCHANGED << schema, turn, conns, llmVars, dispVars, execVars, fields,
                  turnCounters >>
  /\ UNCHANGED auxVars

\* All fields collected: the parameterized INSERT
CollectInsert ==
  /\ pc = "collect"
  /\ Len(data) = Len(fields)
  /\ collectEnd' = "full"
  /\ CallExecuteSql(InsertSql(fields, data), data, "collect")
  /\ UNCHANGED << envVars, conns, llmVars, dispVars, fields, data, prompted,
                  response,
                  llmCalls, collectCalls, commits, printed >>
  /\ UNCHANGED auxVars

CollectResult ==
  /\ pc = "collect_result"
  /\ response' = IF db_result.type = "error"
                   THEN [Msg("insert_failed") EXCEPT !.text = db_result.message]
                   ELSE Msg("added")
  /\ pc' = "print"
  /\ UNCHANGED << envVars, conns, llmVars, dispVars, execVars, collVars,
                  turnCounters >>
  /\ UNCHANGED auxVars

\* main(): process_user_request has returned (its locals are gone),
\* print(response), then the next iteration
PrintResponse ==
  /\ pc = "print"
  /\ printed' = printed + 1
  /\ pc' = "prompt"
  /\ http' = NoHttp
  /\ llm_response' = <<>>
  /\ members' = EmptyObj
  /\ result' = EmptyObj
  /\ action' = <<>>
  /\ sql' = <<>>
  /\ params' = <<>>
  /\ cursor' = NoCursor
  /\ db_result' = NoResult
  /\ fields' = <<>>
  /\ data' = <<>>
  /\ prompted' = <<>>
  /\ UNCHANGED << envVars, conns, caller, failed, connects, escaped,
                  collectEnd, response, llmCalls, execCalls, collectCalls,
                  commits >>
  /\ UNCHANGED auxVars

Next ==
  \/ ProbeConnect \/ ProbeDescribe \/ SelfTestDb \/ SelfTestCheck
  \/ SelfTestLlm \/ SelfTestReport \/ ReadInput \/ AskLlm \/ Parse \/ Dispatch \/ Format
  \/ CollectPrompt \/ CollectInsert \/ CollectResult \/ PrintResponse
  \/ ExecConnect \/ ExecExecute \/ ExecFetch \/ ExecCommit \/ ExecReturn

Spec == Init /\ [][Next]_vars

\* The process keeps running: the interpreter always takes its next step.
\* Nothing is assumed of the user (a line, Ctrl-C) or of the environment.
LiveSpec == Spec /\ WF_vars(Next)

\* ---------------------------------------------- server.py and mysql_utils.py
Departments == { "sales", "hr" }

\* f"MySQL Error: {e}"
MySqlError(e) == [t |-> "str", rows |-> <<>>, text |-> e]
ReturnRows(r) == [t |-> "rows", rows |-> r, text |-> "none"]
\* falling off the end of the function
ReturnNone == [t |-> "None", rows |-> <<>>, text |-> "none"]
Raised(e) == [t |-> "raised", rows |-> <<>>, text |-> e]

\* get_employees_by_department is called with a department
ToolCall ==
  /\ srv_pc = "idle"
  /\ srv_calls < MaxCalls
  /\ \E d \in Departments : dept' = d
  /\ conn' = "unbound"
  /\ fetched' = <<>>
  /\ srv_ret' = NoReturn
  /\ srv_reply' = NoReply
  /\ srv_calls' = srv_calls + 1
  /\ srv_pc' = "connect"
  /\ UNCHANGED << srv_open, mainVars, clientVars >>

\* conn = mysql.connector.connect(...): on an Error conn is never bound
FetchConnect ==
  /\ srv_pc = "connect"
  /\ \/ /\ conn' = "open"
        /\ srv_open' = srv_open + 1
        /\ srv_pc' = "is_connected"
        /\ UNCHANGED srv_ret
     \/ \E e \in DriverErrors :
          /\ srv_ret' = MySqlError(e)
          /\ srv_pc' = "finally"
          /\ UNCHANGED << conn, srv_open >>
  /\ UNCHANGED << dept, fetched, srv_reply, srv_calls, mainVars, clientVars >>

\* if conn.is_connected(): false when the server has dropped the connection,
\* and the function then falls through to the implicit return None
FetchIsConnected ==
  /\ srv_pc = "is_connected"
  /\ \/ /\ srv_pc' = "execute"
        /\ UNCHANGED << conn, srv_open, srv_ret >>
     \/ /\ conn' = "lost"
        /\ srv_open' = srv_open - 1
        /\ srv_ret' = ReturnNone
        /\ srv_pc' = "finally"
  /\ UNCHANGED << dept, fetched, srv_reply, srv_calls, mainVars, clientVars >>

\* cursor.execute(...)
FetchExecute ==
  /\ srv_pc = "execute"
  /\ \/ /\ srv_pc' = "fetchall"
        /\ UNCHANGED srv_ret
     \/ \E e \in DriverErrors :
          /\ srv_ret' = MySqlError(e)
          /\ srv_pc' = "finally"
  /\ UNCHANGED << dept, conn, fetched, srv_reply, srv_open, srv_calls,
                  mainVars, clientVars >>

\* rows = cursor.fetchall(); return rows
FetchFetchall ==
  /\ srv_pc = "fetchall"
  /\ \/ \E n \in 0..MaxRows :
          /\ fetched' = [i \in 1..n |-> << i, "name", dept >>]
          /\ srv_ret' = ReturnRows(fetched')
     \/ \E e \in DriverErrors :
          /\ srv_ret' = MySqlError(e)
          /\ UNCHANGED fetched
  /\ srv_pc' = "finally"
  /\ UNCHANGED << dept, conn, srv_reply, srv_open, srv_calls, mainVars,
                  clientVars >>

\* finally: if conn.is_connected(): conn.close().  Reading the unbound conn
\* raises UnboundLocalError, which replaces the pending return value.
FetchFinally ==
  /\ srv_pc = "finally"
  /\ CASE conn = "unbound" ->
            /\ srv_ret' = Raised("UnboundLocalError")
            /\ UNCHANGED << conn, srv_open >>
       [] conn = "open" ->
            /\ conn' = "closed"
            /\ srv_open' = srv_open - 1
            /\ UNCHANGED srv_ret
       [] OTHER -> UNCHANGED << conn, srv_open, srv_ret >>
  /\ srv_pc' = "tool"
  /\ UNCHANGED << dept, fetched, srv_reply, srv_calls, mainVars, clientVars >>

\* get_employees_by_department: the tool's answer for the fetch result
ServerReply(r, d) ==
  CASE r.t = "raised" -> [NoReply EXCEPT !.kind = "raised", !.text = r.text]
    [] r.t = "str" -> [NoReply EXCEPT !.kind = "error", !.text = r.text]
    [] r.t = "None" \/ r.rows = <<>> ->
         [NoReply EXCEPT !.kind = "not_found", !.text = d]
    [] OTHER -> [NoReply EXCEPT !.kind = "rendered", !.lines = r.rows]

ToolReturn ==
  /\ srv_pc = "tool"
  /\ srv_reply' = ServerReply(srv_ret, dept)
  /\ srv_pc' = "idle"
  /\ UNCHANGED << dept, conn, fetched, srv_ret, srv_open, srv_calls, mainVars,
                  clientVars >>

ServerNext ==
  \/ ToolCall \/ FetchConnect \/ FetchIsConnected \/ FetchExecute
  \/ FetchFetchall \/ FetchFinally \/ ToolReturn

ServerSpec == Init /\ [][ServerNext]_vars

\* ------------------------------------------------------------------ main.py
MainTools == { "get_employee_by_id", "get_all_employees",
               "search_employees_by_name", "get_employees_by_department",
               "add_employee" }

Q_by_id ==
  <<"S","E","L","E","C","T"," ","*"," ","F","R","O","M"," ","e",
  "m","p","l","o","y","e","e","s"," ","W","H","E","R","E"," ",
  "i","d"," ","="," ","%","s">>
Q_all ==
  <<"S","E","L","E","C","T"," ","*"," ","F","R","O","M"," ","e",
  "m","p","l","o","y","e","e","s">>
Q_by_name ==
  <<"S","E","L","E","C","T"," ","*"," ","F","R","O","M"," ","e",
  "m","p","l","o","y","e","e","s"," ","W","H","E","R","E"," ",
  "n","a","m","e"," ","L","I","K","E"," ","%","s">>
Q_by_department ==
  <<"S","E","L","E","C","T"," ","*"," ","F","R","O","M"," ","e",
  "m","p","l","o","y","e","e","s"," ","W","H","E","R","E"," ",
  "d","e","p","a","r","t","m","e","n","t"," ","="," ","%","s">>
Q_add ==
  <<"I","N","S","E","R","T"," ","I","N","T","O"," ","e","m","p",
  "l","o","y","e","e","s"," ","(","n","a","m","e",","," ","e",
  "m","a","i","l",","," ","d","e","p","a","r","t","m","e","n",
  "t",","," ","s","a","l","a","r","y",")"," ","V","A","L","U",
  "E","S"," ","(","%","s",","," ","%","s",","," ","%","s",",",
  " ","%","s",")">>

\* the query each tool passes to db_manager.execute_query
ToolQuery(t) ==
  CASE t = "get_employee_by_id" -> Q_by_id
    [] t = "get_all_employees" -> Q_all
    [] t = "search_employees_by_name" -> Q_by_name
    [] t = "get_employees_by_department" -> Q_by_department
    [] OTHER -> Q_add

QueryError(e) == [NoQueryResult EXCEPT !.t = "error", !.error = e]
QueryRows(d)  == [NoQueryResult EXCEPT !.t = "list", !.data = d]
QueryAffected(n) == [NoQueryResult EXCEPT !.t = "affected",
                                          !.affected_rows = n]

\* a tool is called and calls db_manager.execute_query(query, params)
MainToolCall ==
  /\ m_pc = "idle"
  /\ m_calls < MaxCalls
  /\ \E t \in MainTools :
       /\ tool' = t
       /\ query' = ToolQuery(t)
  /\ m_result' = NoQueryResult
  /\ m_reply' = NoReply
  /\ m_calls' = m_calls + 1
  /\ m_pc' = "connect"
  /\ UNCHANGED << m_open, serverVars, clientVars >>

\* conn = self.get_connection()
ExecuteQueryConnect ==
  /\ m_pc = "connect"
  /\ \/ /\ m_open' = m_open + 1
        /\ m_pc' = "execute"
        /\ UNCHANGED m_result
     \/ \E e \in DriverErrors :
          /\ m_result' = QueryError(e)
          /\ m_pc' = "tool"
          /\ UNCHANGED m_open
  /\ UNCHANGED << tool, query, m_reply, m_calls, serverVars, clientVars >>

\* cursor.execute(query, params or ()); an Error returns {"error": ...}
\* from the except clause, which closes nothing
ExecuteQueryExecute ==
  /\ m_pc = "execute"
  /\ \/ /\ m_pc' = IF IsSelect(query) THEN "fetch" ELSE "commit"
        /\ UNCHANGED m_result
     \/ \E e \in DriverErrors :
          /\ m_result' = QueryError(e)
          /\ m_pc' = "tool"
  /\ UNCHANGED << tool, query, m_reply, m_open, m_calls, serverVars,
                  clientVars >>

\* result = cursor.fetchall()
ExecuteQueryFetch ==
  /\ m_pc = "fetch"
  /\ \/ \E n \in 0..MaxRows :
          /\ m_result' = QueryRows([i \in 1..n |-> i])
          /\ m_pc' = "close"
     \/ \E e \in DriverErrors :
          /\ m_result' = QueryError(e)
          /\ m_pc' = "tool"
  /\ UNCHANGED << tool, query, m_reply, m_open, m_calls, serverVars,
                  clientVars >>

\* conn.commit(); result = {"affected_rows": cursor.rowcount}
ExecuteQueryCommit ==
  /\ m_pc = "commit"
  /\ \/ \E n \in 0..MaxRows :
          /\ m_result' = QueryAffected(n)
          /\ m_pc' = "close"
     \/ \E e \in DriverErrors :
          /\ m_result' = QueryError(e)
          /\ m_pc' = "tool"
  /\ UNCHANGED << tool, query, m_reply, m_open, m_calls, serverVars,
                  clientVars >>

\* cursor.close(); conn.close(); return result
ExecuteQueryClose ==
  /\ m_pc = "close"
  /\ m_open' = m_open - 1
  /\ m_pc' = "tool"
  /\ UNCHANGED << tool, query, m_result, m_reply, m_calls, serverVars,
                  clientVars >>

\* the tools' answers for the value execute_query returned
MainReply(t, r) ==
  CASE r.t = "error" -> [NoReply EXCEPT !.kind = "db_error", !.text = r.error]
    [] t = "add_employee" ->
         IF r.t = "affected"
           THEN [NoReply EXCEPT !.kind = "added", !.n = r.affected_rows]
           ELSE [NoReply EXCEPT !.kind = "failed"]
    [] t = "get_employee_by_id" ->
         IF r.t = "list" /\ r.data # <<>>
           THEN [NoReply EXCEPT !.kind = "json", !.lines = << r.data[1] >>]
           ELSE [NoReply EXCEPT !.kind = "not_found"]
    [] OTHER ->
         IF r.t = "list"
           THEN [NoReply EXCEPT !.kind = "json", !.lines = r.data]
           ELSE [NoReply EXCEPT !.kind = "not_found"]

MainToolReturn ==
  /\ m_pc = "tool"
  /\ m_reply' = MainReply(tool, m_result)
  /\ m_pc' = "idle"
  /\ UNCHANGED << tool, query, m_result, m_open, m_calls, serverVars,
                  clientVars >>

\* A connection execute_query returned without closing is closed only when
\* the interpreter finalizes the unreferenced object, at a time of its own.
Finalize ==
  /\ m_pc = "idle"
  /\ m_open > 0
  /\ m_open' = m_open - 1
  /\ UNCHANGED << m_pc, tool, query, m_result, m_reply, m_calls, serverVars,
                  clientVars >>

MainNext ==
  \/ MainToolCall \/ ExecuteQueryConnect \/ ExecuteQueryExecute
  \/ ExecuteQueryFetch \/ ExecuteQueryCommit \/ ExecuteQueryClose
  \/ MainToolReturn \/ Finalize

MainSpec == Init /\ [][MainNext]_vars

\* ------------------------------------------------------------------ claims
TurnPcs == { "ask", "parse", "dispatch", "collect", "collect_result",
             "format", "print", "exec_connect", "exec_execute", "exec_fetch",
             "exec_commit", "exec_return" }

ExecPcs == { "exec_connect", "exec_execute", "exec_fetch", "exec_commit",
             "exec_return" }

InTurn == turn >= 1 /\ pc \in TurnPcs

NeedsDataTrue == result.needs_data.t = "bool" /\ result.needs_data.b

\* The four-way rule as one step of the dispatcher, for a given reading of
\* "the decision has sql"
DispatchRule(hasSql) ==
  pc = "dispatch" =>
    IF action = S_help
      THEN /\ pc' = "print"
           /\ response'.kind = "help"
           /\ response'.text = ExplanationText(result)
           /\ execCalls' = execCalls /\ collectCalls' = collectCalls
    ELSE IF NeedsDataTrue
      THEN /\ pc' = "collect"
           /\ collectCalls' = collectCalls + 1
           /\ execCalls' = execCalls
    ELSE IF hasSql
      THEN /\ pc' = "exec_connect"
           /\ caller' = "dispatch"
           /\ sql' = result.sql.s
           /\ execCalls' = execCalls + 1 /\ collectCalls' = collectCalls
    ELSE /\ pc' = "print"
         /\ response'.kind = "nosql"
         /\ execCalls' = execCalls /\ collectCalls' = collectCalls

\* Over the whole turn: the help and no-sql answers come without any call,
\* the collector path never executes the decision's sql, and the executor
\* path runs the decision's sql once
DispatchTurn ==
  InTurn =>
    /\ response.kind \in {"help", "nosql"} => execCalls = 0 /\ collectCalls = 0
    /\ collectCalls > 0 => caller # "dispatch" /\ collectCalls = 1
    /\ caller = "dispatch" =>
         execCalls = 1 /\ collectCalls = 0 /\ result.sql.t = "str"
           /\ sql = result.sql.s

\* C1 as stated: every decoded decision takes the first matching of HELP,
\* needs_data, "sql present and non-null" (executed once), else the fixed
\* no-SQL answer.
C1_AsStated ==
  [][DispatchRule(result.sql.t \notin {"absent", "null"})]_vars

\* C1 amended: the same first-match rule, where the executor is chosen only
\* for a sql that is a non-empty string; an absent, null or empty sql gives
\* the fixed no-SQL answer.
C1_Dispatch ==
  /\ [][DispatchRule(result.sql.t = "str" /\ result.sql.s # <<>>)]_vars
  /\ []DispatchTurn

C1_Witness ==
  /\ pc = "print" /\ response.kind = "help"
  /\ NeedsDataTrue /\ Truthy(result.sql)
  /\ execCalls = 0 /\ collectCalls = 0

\* C2: the INSERT reaches the executor only when every insertable field got
\* a value that is non-empty after trimming; an empty field or an interrupt
\* ends the collection with no statement executed and no connection opened,
\* under two different messages.
C2_InsertOnlyWhenComplete ==
  /\ (caller = "collect" /\ pc \in ExecPcs) =>
       /\ collectEnd = "full"
       /\ Len(data) = Len(fields)
       /\ \A i \in 1..Len(data) :
            data[i] # <<>> /\ data[i][1] # " " /\ data[i][Len(data[i])] # " "
       /\ params = data
  /\ collectEnd \in {"empty", "interrupt"} =>
       /\ execCalls = 0 /\ connects = 0 /\ commits = 0 /\ conns = 0
       /\ pc \in {"print", "prompt", "done"}
       /\ response.kind = IF collectEnd = "empty" THEN "all_required"
                          ELSE "cancelled"
  /\ Msg("all_required") # Msg("cancelled")

C2_Witness ==
  /\ pc = "print" /\ collectEnd = "empty"
  /\ Len(fields) = 3 /\ Len(data) = 1
  /\ response.kind = "all_required" /\ execCalls = 0

\* C3 as stated: a decoded object without the action field is a parse
\* failure: the answer is "failed to parse" and neither the executor nor
\* the collector runs.
C3_AsStated ==
  LET r == JsonLoads(JsonSpan(llm_response), members) IN
  (InTurn /\ pc \notin {"ask", "parse"} /\ r.ok /\ r.obj.action.t = "absent") =>
    /\ execCalls = 0 /\ collectCalls = 0
    /\ pc = "print" /\ response.kind = "parse_failed"

\* C4 as stated: ask_llm returns the empty string after a transport error,
\* a timeout or a response whose status is not 2xx.
C4_AsStated ==
  (pc = "parse" /\ (http.kind # "response" \/ http.status \notin 200..299)) =>
    llm_response = <<>>

\* C5: no failure leaves execute_sql as an exception; a failure at any of
\* its steps gives the Error variant with the driver's message, one variant
\* per call, and nothing is committed by a call that failed.
C5_ErrorsBecomeResults ==
  /\ ~escaped
  /\ pc = "exec_return" =>
       /\ db_result.type \in {"select", "modify", "error"}
       /\ db_result.type = "error" <=> failed # "none"
       /\ db_result.type = "error" <=> db_result.message \in DriverErrors
       /\ db_result.type # "select" => db_result.data = <<>>
       /\ db_result.type # "modify" => db_result.rows_affected = 0
  /\ failed # "none" =>
       /\ commits = 0
       /\ pc \in {"format", "collect_result", "selftest_check"} =>
            db_result.type = "error"

C5_Witness ==
  /\ pc = "exec_return" /\ failed = "commit"
  /\ db_result.type = "error" /\ commits = 0 /\ cursor.rowcount > 0

\* C6: a call without driver error on a statement whose trimmed, upper-cased
\* text begins with SELECT returns Select with all rows and commits nothing;
\* on any other statement it commits once and returns Modify with the row
\* count.
C6_Classification ==
  LET isRead == StartsWith(Upper(Strip(sql)), S_select) IN
  /\ (pc = "exec_return" /\ failed = "none") =>
       IF isRead
         THEN db_result = SelectResult(cursor.rows) /\ commits = 0
         ELSE db_result = ModifyResult(cursor.rowcount) /\ commits = 1
  /\ (pc \in ExecPcs /\ isRead) => commits = 0 /\ pc # "exec_commit"
  /\ commits <= 1

C6_Witness ==
  /\ pc = "exec_return" /\ failed = "none"
  /\ sql = <<" ","s","e","l","e","c","t"," ">>
  /\ db_result.type = "select" /\ Len(db_result.data) >= 2

\* C7: each database operation makes one connection, released before the
\* call returns on every path; no connection is open between calls and at
\* most one during a call.
C7_Connections ==
  /\ conns \in {0, 1}
  /\ connects <= 1
  /\ pc \notin {"probe_describe", "exec_execute", "exec_fetch", "exec_commit"}
       => conns = 0
  /\ pc \in {"exec_return", "fatal", "selftest_db", "format", "collect_result",
             "selftest_check"} => connects = 1

C7_Witness ==
  /\ turn = 2 /\ pc = "exec_return" /\ failed = "execute"
  /\ conns = 0 /\ connects = 1

\* C8: in one turn the model is called once and a statement executed at
\* most once, the execution starting only after the model call returned
\* and its decision was decoded; a failure gives one answer and no second
\* call.
C8_TurnInv ==
  turn >= 1 =>
    /\ llmCalls <= 1 /\ execCalls <= 1 /\ printed <= 1
    /\ pc \in (TurnPcs \ {"ask"}) => llmCalls = 1
    /\ pc = "prompt" => llmCalls = 1 /\ printed = 1

C8_OncePerTurn ==
  /\ []C8_TurnInv
  /\ [][(turn >= 1 /\ execCalls' > execCalls) =>
          /\ execCalls = 0 /\ llmCalls = 1
          /\ pc \in {"dispatch", "collect"}
          /\ JsonLoads(JsonSpan(llm_response), members).ok]_vars

C8_Witness ==
  /\ pc = "prompt" /\ turn >= 1 /\ response.kind = "db_error"
  /\ llmCalls = 1 /\ execCalls = 1 /\ printed = 1

\* C9: every failure inside a turn (model unavailable, parse error,
\* database error, validation error, cancelled collection) gives exactly one
\* printed answer, after which the loop is back at its prompt; no turn ends
\* the process or ends without an answer.
C9_TurnInv ==
  /\ pc = "print" =>
       /\ printed = 0 /\ response.kind # "none"
       /\ http.kind \in {"transport_error", "timeout"} =>
            response.kind = "parse_failed"
       /\ (failed # "none" /\ caller = "dispatch") => response.kind = "db_error"
       /\ (failed # "none" /\ caller = "collect") =>
            response.kind = "insert_failed"
       /\ collectEnd = "empty" => response.kind = "all_required"
       /\ collectEnd = "interrupt" => response.kind = "cancelled"
  /\ (turn >= 1 /\ pc = "prompt") => printed = 1 /\ response.kind # "none"

C9_OneMessagePerTurn ==
  /\ []C9_TurnInv
  /\ [][InTurn => pc' \in TurnPcs \cup {"prompt"}]_vars
  /\ [][pc = "print" => pc' = "prompt" /\ printed' = 1]_vars

C9_Witness ==
  /\ turn = 2 /\ pc = "prompt" /\ collectEnd = "interrupt"
  /\ printed = 1 /\ response.kind = "cancelled"

\* No "{" is followed, anywhere later in the text, by a "}"
NoBracePair(raw) ==
  ~ \E i, j \in 1..Len(raw) : i < j /\ raw[i] = "{" /\ raw[j] = "}"

\* C10: a raw model output without a brace pair is a parse failure: the
\* answer is "failed to parse", nothing is executed or collected, and the
\* loop goes on to the next turn.
C10_TurnInv ==
  (InTurn /\ pc \notin {"ask", "parse"} /\ NoBracePair(llm_response)) =>
    /\ pc = "print"
    /\ response.kind = "parse_failed"
    /\ execCalls = 0 /\ collectCalls = 0

C10_NoBracesParseError ==
  /\ []C10_TurnInv
  /\ [][(pc = "print" /\ NoBracePair(llm_response)) => pc' = "prompt"]_vars

C10_Witness ==
  /\ pc = "print" /\ response.kind = "parse_failed"
  /\ llm_response = <<"}", "w", "}">>

\* The balanced objects embedded in a raw text: an opening brace, the
\* members or nothing, a closing brace, with optional whitespace between
ObjectsIn(raw) ==
  { p \in (1..Len(raw)) \X (1..Len(raw)) :
      /\ p[1] < p[2]
      /\ raw[p[1]] = "{" /\ raw[p[2]] = "}"
      /\ SelectSeq(SubSeq(raw, p[1] + 1, p[2] - 1), LAMBDA t : t # " ")
           \in {<<>>, <<"F">>} }

OneObject(raw) == Cardinality(ObjectsIn(raw)) = 1

TheObject(raw) == CHOOSE p \in ObjectsIn(raw) : TRUE

\* What the embedded object decodes to
Embedded(raw) ==
  LET p == TheObject(raw)
  IN IF \E i \in p[1]..p[2] : raw[i] = "F" THEN members ELSE EmptyObj

\* No opening brace before the object and no closing brace after it
CleanAround(raw) ==
  LET p == TheObject(raw)
  IN /\ \A i \in 1..(p[1] - 1) : raw[i] # "{"
     /\ \A i \in (p[2] + 1)..Len(raw) : raw[i] # "}"

Parsed == InTurn /\ pc \notin {"ask", "parse"}

\* C11 as stated: a raw output holding exactly one balanced JSON object in
\* arbitrary surrounding text is decoded, and the decision handed on is that
\* object.
C11_AsStated ==
  (Parsed /\ OneObject(llm_response)) =>
    /\ response.kind # "parse_failed"
    /\ result = Embedded(llm_response)

\* C11 amended: the same, when the surrounding text has no opening brace
\* before the object and no closing brace after it, so that the span from
\* the first "{" to the last "}" is the object.
C11_ExtractsObject ==
  (Parsed /\ OneObject(llm_response) /\ CleanAround(llm_response)) =>
    /\ response.kind # "parse_failed"
    /\ result = Embedded(llm_response)
    /\ JsonSpan(llm_response)
         = SubSeq(llm_response, TheObject(llm_response)[1],
                  TheObject(llm_response)[2])

C11_Witness ==
  /\ pc = "dispatch"
  /\ llm_response = <<"}", "{", "F", "}">>
  /\ result = members /\ result.action.t = "str"

LoopPcs == TurnPcs \cup {"prompt", "done"}

InLoop == pc \in LoopPcs /\ caller # "selftest"

\* C12: the loop is entered only after the probe returned at least one
\* column and the self-test's database read succeeded; a failed probe is
\* fatal, a failed read ends startup, and a model endpoint that fails or
\* does not answer OK only gives a warning.
C12_StartInv ==
  /\ InLoop => schema # <<>> /\ selfDb = "select"
  /\ pc \in {"fatal", "startup_failed"} => turn = 0
  /\ pc = "fatal" => schema = <<>> /\ selfDb = "none"
  /\ pc = "startup_failed" => ~SelfTestPasses(db_result) /\ ~warned
  /\ pc = "selftest_report" =>
       (http.kind # "response" => test = <<>>) /\ selfDb = "select"

C12_Startup ==
  /\ []C12_StartInv
  /\ [][(pc \in {"fatal", "startup_failed"}) => (pc' = pc)]_vars
  /\ [][pc = "probe_describe" =>
          (pc' = "selftest_db" /\ schema' # <<>>) \/ pc' = "fatal"]_vars
  /\ [][(pc = "selftest_check" /\ db_result.type # "select") =>
          pc' = "startup_failed"]_vars
  /\ [][pc = "selftest_report" =>
          /\ pc' = "prompt"
          /\ warned' <=> ~Contains(Upper(test), <<"O","K">>)]_vars

C12_Witness ==
  /\ pc = "ask" /\ turn = 1 /\ warned /\ selfDb = "select"
  /\ Len(schema) >= 1

Calls == << llmCalls, execCalls, collectCalls, connects, commits, conns >>

\* C13: a line that is exit, quit or q in any letter case ends the loop
\* with no model or database call; an empty line (after trimming) is
\* ignored: no call, no message, and the loop prompts again.
C13_ExitAndEmpty ==
  [][(pc = "prompt" /\ event' = "line") =>
       /\ Lower(user_input') \in {<<"e","x","i","t">>, <<"q","u","i","t">>,
                                  <<"q">>}
            => pc' = "done" /\ UNCHANGED Calls /\ UNCHANGED turn
       /\ user_input' = <<>>
            => /\ pc' = "prompt" /\ UNCHANGED Calls /\ UNCHANGED turn
               /\ UNCHANGED << response, printed, unexpected >>
       /\ pc' = "ask"
            => /\ user_input' # <<>>
               /\ Lower(user_input') \notin ExitWords]_vars

C13_Witness ==
  /\ pc = "done" /\ event = "line" /\ user_input = <<"E","x","i","t">>
  /\ turn = 1 /\ llmCalls = 1

\* C14: the answer for an executed statement follows from the result alone:
\* Error gives the database-error answer with the driver's message, Select
\* gives "no records" or a count header with lines 1..N in row order,
\* Modify gives the success answer (count and lower-cased action) when the
\* count is positive and the no-rows warning when it is zero.
C14_Answers ==
  (pc = "print" /\ caller = "dispatch" /\ db_result.type # "none") =>
    /\ db_result.type = "error" =>
         response.kind = "db_error" /\ response.text = db_result.message
    /\ (db_result.type = "select" /\ db_result.data = <<>>) =>
         response.kind = "no_records" /\ response.lines = <<>>
    /\ (db_result.type = "select" /\ db_result.data # <<>>) =>
         /\ response.kind = "records"
         /\ response.n = Len(db_result.data)
         /\ Len(response.lines) = Len(db_result.data)
         /\ \A i \in 1..Len(db_result.data) :
              response.lines[i] = <<i, db_result.data[i]>>
    /\ (db_result.type = "modify" /\ db_result.rows_affected > 0) =>
         /\ response.kind = "modified"
         /\ response.n = db_result.rows_affected
         /\ response.verb = Lower(action)
    /\ (db_result.type = "modify" /\ db_result.rows_affected = 0) =>
         response.kind = "no_rows"
    /\ response.kind = "modified" =>
         db_result.type = "modify" /\ db_result.rows_affected > 0

C14_Witness ==
  /\ pc = "print" /\ response.kind = "no_rows"
  /\ sql = <<"U","P","D","A","T","E">> /\ failed = "none"
  /\ db_result.type = "modify" /\ db_result.rows_affected = 0

\* C15: the collector prompts, in schema order and once each, for exactly the
\* schema columns other than id and hire_date; after a full collection it
\* issues one INSERT that lists the collected fields in order and has one
\* placeholder per field, the values going in the parameters only.  For the
\* schema [id, name, department, salary] the fields are name, department,
\* salary, and an empty salary gives the validation answer and no statement.
InCollector ==
  \/ pc = "collect"
  \/ caller = "collect" /\ pc \in ExecPcs \cup {"collect_result"}
  \/ pc = "print" /\ collectEnd # "none"

ScenarioSchema == << <<"i","d">>, <<"n","a","m","e">>,
                     <<"d","e","p","a","r","t","m","e","n","t">>,
                     <<"s","a","l","a","r","y">> >>

ScenarioSql ==
  <<"I","N","S","E","R","T"," ","I","N","T","O"," ","e","m","p","l",
     "o","y","e","e","s"," ","(","n","a","m","e",","," ","d","e","p",
     "a","r","t","m","e","n","t",","," ","s","a","l","a","r","y",")",
     " ","V","A","L","U","E","S"," ","(","%","s",","," ","%","s",",",
     " ","%","s",")">>

Occurrences(s, ch) == Cardinality({ i \in 1..Len(s) : s[i] = ch })

C15_Collector ==
  LET keep == { i \in 1..Len(schema) :
                  /\ schema[i] # <<"i","d">>
                  /\ schema[i] # <<"h","i","r","e","_","d","a","t","e">> }
      nth(i) == CHOOSE k \in keep : Cardinality({ j \in keep : j < k }) = i - 1
      text == <<"I","N","S","E","R","T"," ","I","N","T","O"," ",
                "e","m","p","l","o","y","e","e","s"," ","(">>
                \o Join(fields, <<",", " ">>)
                \o <<")"," ","V","A","L","U","E","S"," ","(">>
                \o Join([i \in 1..Len(fields) |-> <<"%","s">>], <<",", " ">>)
                \o <<")">>
  IN
  /\ InCollector =>
       /\ Len(fields) = Cardinality(keep)
       /\ \A i \in 1..Len(fields) : fields[i] = schema[nth(i)]
       /\ Len(prompted) <= Len(fields)
       /\ prompted = SubSeq(fields, 1, Len(prompted))
       /\ Len(prompted) = Len(data) + (IF collectEnd \in {"none", "full"}
                                         THEN 0 ELSE 1)
       /\ schema = ScenarioSchema =>
            /\ fields = << <<"n","a","m","e">>,
                           <<"d","e","p","a","r","t","m","e","n","t">>,
                           <<"s","a","l","a","r","y">> >>
            /\ collectEnd = "empty" =>
                 /\ response.kind = "all_required"
                 /\ execCalls = 0 /\ commits = 0
       /\ collectEnd = "full" => execCalls = 1 /\ prompted = fields
       /\ collectEnd # "full" => execCalls = 0
  /\ (caller = "collect" /\ pc \in ExecPcs) =>
       /\ sql = text
       /\ params = data
       /\ Len(params) = Len(fields)
       /\ Occurrences(sql, "%") = Len(fields)
       /\ schema = ScenarioSchema => sql = ScenarioSql

C15_Witness ==
  /\ pc = "print" /\ schema = ScenarioSchema
  /\ collectEnd = "empty" /\ Len(data) = 2
  /\ prompted = << S_name, S_department, S_salary >>
  /\ response.kind = "all_required" /\ execCalls = 0

C15_WitnessInsert ==
  /\ caller = "collect" /\ pc = "exec_commit" /\ schema = ScenarioSchema
  /\ sql = ScenarioSql /\ Len(params) = 3

\* C16 as stated: within a turn a statement is committed only when the
\* decision's upper-cased action is INSERT, UPDATE or DELETE.
C16_AsStated ==
  (InTurn /\ commits > 0) =>
    action \in { <<"I","N","S","E","R","T">>, <<"U","P","D","A","T","E">>,
                 <<"D","E","L","E","T","E">> }

\* C17 as stated: once reading a line has failed with end-of-input, the
\* loop eventually stops.
C17_AsStated == eof ~> (pc = "done")

\* C18 as stated: fetch_employees_by_department never raises and returns the
\* rows or a "MySQL Error" string, having closed the connection it opened;
\* the tool answers with the error string, "no employees found" or the rows.
C18_AsStated ==
  /\ srv_pc \in {"tool", "idle"} =>
       /\ srv_ret.t \in {"none", "rows", "str"}
       /\ conn # "open"
  /\ (srv_pc = "idle" /\ srv_calls > 0) =>
       srv_reply.kind \in {"error", "not_found", "rendered"}

\* C19 as stated: when execute_query has returned, on the success path or
\* with {"error": ...}, no connection is open.
C19_AsStated ==
  m_pc \in {"tool", "idle"} => m_open = 0

====
